---- MODULE Spec2Model ----
(***************************************************************************)
(* A model of zotero-citation-relinker.py: the matching engine             *)
(* (ZoteroDatabase.find_match over the indexes built by _load_items), the  *)
(* field-code extractor and citation parser, the orphan classifier, the    *)
(* identifier rewriter and the run of main.  Strings are sequences of      *)
(* one-character strings.                                                  *)
(***************************************************************************)
EXTENDS Integers, Sequences, FiniteSets, TLC

VARIABLES
    \* the library and the matching engine
    items,         \* ZoteroDatabase.items: the library records, in load order
    user_id,       \* ZoteroDatabase.user_id (<<>> for None)
    local_user_key,\* ZoteroDatabase.local_user_key (<<>> for None)
    citation_item, \* the CitationItem handed to find_match (with its result fields)
    threshold,     \* find_match's threshold argument
    ret,           \* find_match's return value: <<>> for None, <<record>> otherwise
    scans,         \* the scoring passes (process.extractOne calls) find_match ran
    \* the citation parser
    field_code,    \* the raw field-instruction string handed to from_field_code
    parsed,        \* what from_field_code did with it
    \* the field-code extractor
    in_field,      \* extract_citations_from_docx: in_field
    current_field, \* extract_citations_from_docx: current_field
    extracted,     \* extract_citations_from_docx: citations
    field_index,   \* extract_citations_from_docx: field_index
    joined,        \* extract_citations_from_docx: field_code of the last field closed
    raised,        \* an exception left extract_citations_from_docx
    elem,          \* the element of root.iter() visited last
    visited,       \* the number of elements visited
    nodes,         \* the elements of root.iter() visited so far, in document order
    \* the citations of the run, the document and the rewriter
    citations,     \* the list of Citation objects of the run
    content,       \* the raw text of word/document.xml of the input document
    output,        \* <<>> while no output document exists, else <<its document.xml>>
    message,       \* what update_docx_citations printed
    \* the run of main
    env,           \* what main finds: arguments, files, the Zotero database
    report,        \* <<>> while no report exists, else <<its figures, guide written or not>>
    exit_code,     \* <<>> while main runs or returns, else <<the status of sys.exit>>
    calls,         \* the number of find_match calls main has made
    pc             \* position of the run

matchVars   == <<items, user_id, local_user_key, citation_item, threshold, ret, scans>>
parseVars   == <<field_code, parsed>>
extractVars == <<in_field, current_field, extracted, field_index, joined, raised,
                 elem, visited, nodes>>
docVars     == <<citations, content, output, message>>
runVars     == <<env, report, exit_code, calls>>

vars == <<matchVars, parseVars, extractVars, docVars, runVars, pc>>

(***************************************************************************)
(* Bounds of the model.                                                    *)
(***************************************************************************)
MaxRecords == 2

(***************************************************************************)
(* Python string operations used by the code.                              *)
(***************************************************************************)
IsSpace(c) == c = " "

\* str.lower(), one character
LowerChar(c) == CASE c = "A" -> "a" [] c = "B" -> "b" [] c = "X" -> "x" [] OTHER -> c

\* str.upper(), one character
UpperChar(c) == CASE c = "a" -> "A" [] c = "b" -> "B" [] c = "x" -> "X" [] OTHER -> c

Lower(s) == [i \in 1..Len(s) |-> LowerChar(s[i])]

Upper(s) == [i \in 1..Len(s) |-> UpperChar(s[i])]

RECURSIVE LStrip(_)
LStrip(s) == IF s # <<>> /\ IsSpace(Head(s)) THEN LStrip(Tail(s)) ELSE s

RECURSIVE RStrip(_)
RStrip(s) == IF s # <<>> /\ IsSpace(s[Len(s)]) THEN RStrip(SubSeq(s, 1, Len(s) - 1)) ELSE s

\* str.strip()
Strip(s) == RStrip(LStrip(s))

\* " ".join(parts)
RECURSIVE JoinSpace(_)
JoinSpace(parts) ==
    IF parts = <<>> THEN <<>>
    ELSE IF Len(parts) = 1 THEN parts[1]
    ELSE parts[1] \o <<" ">> \o JoinSpace(Tail(parts))

\* filter(None, parts): the non-empty strings, in order
FilterNone(parts) == SelectSeq(parts, LAMBDA p : p # <<>>)

\* the characters the pattern [^0-9X] does not remove
IsbnKeep == {"0", "1", "2", "3", "4", "5", "6", "7", "8", "9", "X"}

\* re.sub(r'[^0-9X]', '', s)
SubNonIsbn(s) == SelectSeq(s, LAMBDA c : c \in IsbnKeep)

(***************************************************************************)
(* CitationItem (lines 52-94).                                             *)
(***************************************************************************)
\* CitationItem.author_string
author_string(ci) ==
    LET named == SelectSeq(ci.authors, LAMBDA a : a.kind \in {"family", "literal", "str"})
    IN  JoinSpace([i \in 1..Len(named) |-> named[i].name])

\* CitationItem.search_string
search_string(ci) ==
    LET parts == <<ci.title, author_string(ci)>> \o
                 (IF ci.year # <<>> THEN <<ci.year>> ELSE <<>>)
    IN  JoinSpace(FilterNone(parts))

(***************************************************************************)
(* The library index (ZoteroDatabase._load_items, lines 284-292).          *)
(***************************************************************************)
\* mutant of LoadDoiKey: the key is lower-cased and not trimmed
LoadDoiKeyNoStrip(doi) == Lower(doi)

\* the key a record's DOI is indexed under
LoadDoiKey(doi) == Strip(Lower(doi))

\* the key a record's ISBN is indexed under
LoadIsbnKey(isbn) == SubNonIsbn(Upper(isbn))

\* the last index of the sequence its that satisfies P (later records overwrite)
LastIdx(S) == CHOOSE i \in S : \A j \in S : j <= i

items_by_key(its) == [k \in {its[i].key : i \in 1..Len(its)} |->
                        its[LastIdx({i \in 1..Len(its) : its[i].key = k})]]

items_by_doi(its) ==
    LET idx == {i \in 1..Len(its) : its[i].doi # <<>>}
    IN  [d \in {LoadDoiKey(its[i].doi) : i \in idx} |->
            its[LastIdx({i \in idx : LoadDoiKey(its[i].doi) = d})]]

items_by_isbn(its) ==
    LET idx == {i \in 1..Len(its) : its[i].isbn # <<>>}
    IN  [b \in {LoadIsbnKey(its[i].isbn) : i \in idx} |->
            its[LastIdx({i \in idx : LoadIsbnKey(its[i].isbn) = b})]]

\* item['search_string'] of a record without creators and without a date:
\* f"{title} {author_str} {year}" with author_str "" and year None
record_search_string(r) == r.title \o <<" ", " ", "N", "o", "n", "e">>

(***************************************************************************)
(* The external scorer.  fuzz.token_set_ratio is a library function: its   *)
(* value on two strings with tokens is any similarity the library may      *)
(* return (the record's csim against the item's search string, its tsim    *)
(* against the item's title), and 0 when either string has no token.       *)
(***************************************************************************)
ScoreVals == {75, 85, 90}

\* a string without tokens: str.split() is empty
Blank(s) == Strip(s) = <<>>

token_set_ratio(query, choice, sim) == IF Blank(query) \/ Blank(choice) THEN 0 ELSE sim

\* mutant of extractOne: the first choice, whatever its score
extractFirst(scores) ==
    IF scores = <<>> THEN <<>> ELSE <<[score |-> scores[1], index |-> 1]>>

\* process.extractOne over a list of scores: None (<<>>) for an empty list,
\* otherwise [score, index] of the first choice with the highest score
extractOne(scores) ==
    IF scores = <<>> THEN <<>>
    ELSE LET best == CHOOSE i \in 1..Len(scores) :
                        /\ \A j \in 1..Len(scores) : scores[j] <= scores[i]
                        /\ \A j \in 1..(i - 1) : scores[j] < scores[i]
         IN  <<[score |-> scores[best], index |-> best]>>

(***************************************************************************)
(* ZoteroDatabase.find_match (lines 301-357).                              *)
(***************************************************************************)
\* mutants of the definitions below (a plausible slip in each line)
DoiCleanNoLower(doi) == Strip(doi)

IsbnCleanNoUpper(isbn) == SubNonIsbn(isbn)

SearchEmptyNever(search_str) == FALSE

TitleAcceptCaller(score, th) == score >= th

\* doi_clean, line 305
DoiClean(doi) == Strip(Lower(doi))

\* isbn_clean, line 313
IsbnClean(isbn) == SubNonIsbn(Upper(isbn))

\* line 321: the search string has nothing to score
SearchEmpty(search_str) == Strip(search_str) = <<>>

\* line 336: the composite stage accepts the best score
FuzzyAccept(score, th) == score >= th

\* line 351: the title-only stage accepts the best score
TitleAccept(score, th) == score >= 90

\* what find_match returns and writes, for a return without a match
NoMatch(ci, ran) ==
    [ret |-> <<>>, match_method |-> ci.match_method, match_score |-> ci.match_score,
     scans |-> ran]

Matched(r, method, score, ran) ==
    [ret |-> <<r>>, match_method |-> method, match_score |-> score, scans |-> ran]

\* lines 342-357
title_stage(its, ci, th, ran) ==
    IF ci.title = <<>> THEN NoMatch(ci, ran)
    ELSE LET title_choices == SelectSeq(its, LAMBDA r : r.title # <<>>)
             scores == [i \in 1..Len(title_choices) |->
                          token_set_ratio(ci.title, title_choices[i].title,
                                          title_choices[i].tsim)]
             result == extractOne(scores)
             ran2   == Append(ran, "title_only")
         IN  IF result # <<>> /\ TitleAccept(result[1].score, th)
             THEN Matched(items_by_key(its)[title_choices[result[1].index].key],
                          "title_only", result[1].score, ran2)
             ELSE NoMatch(ci, ran2)

\* lines 319-340
fuzzy_stage(its, ci, th) ==
    LET search_str == search_string(ci)
    IN  IF SearchEmpty(search_str) THEN NoMatch(ci, <<>>)
        ELSE IF its = <<>> THEN NoMatch(ci, <<>>)
        ELSE LET scores == [i \in 1..Len(its) |->
                              token_set_ratio(search_str, record_search_string(its[i]),
                                              its[i].csim)]
                 result == extractOne(scores)
             IN  IF result # <<>> /\ FuzzyAccept(result[1].score, th)
                 THEN Matched(items_by_key(its)[its[result[1].index].key],
                              "fuzzy", result[1].score, <<"fuzzy">>)
                 ELSE title_stage(its, ci, th, <<"fuzzy">>)

\* lines 311-317
isbn_stage(its, ci, th) ==
    IF ci.isbn # <<>> /\ IsbnClean(ci.isbn) \in DOMAIN items_by_isbn(its)
    THEN Matched(items_by_isbn(its)[IsbnClean(ci.isbn)], "ISBN", 100, <<>>)
    ELSE fuzzy_stage(its, ci, th)

find_match(its, ci, th) ==
    IF ci.doi # <<>> /\ DoiClean(ci.doi) \in DOMAIN items_by_doi(its)
    THEN Matched(items_by_doi(its)[DoiClean(ci.doi)], "DOI", 100, <<>>)
    ELSE isbn_stage(its, ci, th)

(***************************************************************************)
(* The inputs of the matching engine.                                      *)
(***************************************************************************)
RecTitles == {<<>>, <<"t">>}
RecDois   == {<<>>, <<" ", "a">>, <<" ">>}
RecIsbns  == {<<>>, <<"X", "-">>, <<"-">>}

\* the fields of a library record apart from its key: records that carry an
\* identifier, and records without one over every pair of similarities
RecordFields ==
    {f \in [title : RecTitles, doi : RecDois, isbn : RecIsbns,
            csim : ScoreVals, tsim : ScoreVals] :
        /\ f.title = <<>> => f.csim = 90 /\ f.tsim = 75
        /\ (f.doi # <<>> \/ f.isbn # <<>>) =>
              /\ f.title # <<>> /\ f.csim = 75 /\ f.tsim = 75
              /\ Blank(f.doi) \/ Blank(f.isbn) => f.doi = <<>> \/ f.isbn = <<>>
        /\ (f.doi = <<>> /\ f.isbn = <<>> /\ f.title # <<>>) =>
              f.csim = 75 \/ f.tsim = 75}

\* Zotero item keys: the i-th record of a library has the i-th key
KeyChars == <<"K", "L", "M", "N">>

KeyOf(i) == <<KeyChars[i]>>

WithKey(f, k) == [key |-> KeyOf(k), title |-> f.title, doi |-> f.doi, isbn |-> f.isbn,
                  csim |-> f.csim, tsim |-> f.tsim]

\* the libraries: up to MaxRecords records, the i-th with key i (keys are unique)
Libraries ==
    UNION {{[i \in 1..n |-> WithKey(fs[i], i)] : fs \in [1..n -> RecordFields]} :
              n \in 0..MaxRecords}

Family(s)  == [kind |-> "family", name |-> s]
Literal(s) == [kind |-> "literal", name |-> s]
GivenOnly  == [kind |-> "other", name |-> <<>>]

ItemTitles  == {<<>>, <<" ">>, <<"t">>}
ItemAuthors == {<<>>, <<Family(<<>>), GivenOnly, Literal(<<"s">>)>>}
ItemYears   == {<<>>, <<"2">>}
ItemDois    == {<<>>, <<"A", " ">>, <<" ">>}
ItemIsbns   == {<<>>, <<"-", "x">>, <<"-">>}
Thresholds  == {0, 80, 95}

\* CitationItem(): the fields find_match reads, and the result fields at their defaults
NewCitationItem(t, a, y, d, b) ==
    [title |-> t, authors |-> a, year |-> y, doi |-> d, isbn |-> b,
     match_method |-> "", match_score |-> 0]

NoItem == NewCitationItem(<<>>, <<>>, <<>>, <<>>, <<>>)

(***************************************************************************)
(* The matching run: a library is loaded, then find_match is called on a   *)
(* cited item.                                                             *)
(***************************************************************************)
\* the parts of the state a run does not use
IdleEngine ==
    /\ citation_item = NoItem
    /\ threshold = 80
    /\ ret = <<>>
    /\ scans = <<>>

IdleParser == field_code = <<>> /\ parsed = [kind |-> "idle"]

IdleExtractor ==
    /\ in_field = FALSE
    /\ current_field = <<>>
    /\ extracted = <<>>
    /\ field_index = 0
    /\ joined = <<>>
    /\ raised = FALSE
    /\ elem = [tag |-> "none", text |-> <<>>]
    /\ visited = 0
    /\ nodes = <<>>

NoMessage == [text |-> "", made |-> 0]

IdleDocument ==
    /\ citations = <<>>
    /\ content = <<>>
    /\ output = <<>>
    /\ message = NoMessage

\* main is not running
NoEnv ==
    [docx_exists |-> FALSE, db_found |-> FALSE, catalog |-> <<>>,
     user_id |-> <<>>, local_user_key |-> <<>>, document |-> <<>>,
     output |-> FALSE, guide |-> FALSE]

IdleRun ==
    /\ env = NoEnv
    /\ report = <<>>
    /\ exit_code = <<>>
    /\ calls = 0

InitMatch ==
    /\ items \in Libraries
    /\ user_id = <<>>
    /\ local_user_key = <<>>
    /\ IdleEngine
    /\ IdleParser
    /\ IdleExtractor
    /\ IdleDocument
    /\ IdleRun
    /\ pc = "loaded"

FindMatch ==
    /\ pc = "loaded"
    /\ \E t \in ItemTitles, a \in ItemAuthors, y \in ItemYears,
          d \in ItemDois, b \in ItemIsbns, th \in Thresholds :
          LET ci == NewCitationItem(t, a, y, d, b)
              r  == find_match(items, ci, th)
          IN  /\ citation_item' = [ci EXCEPT !.match_method = r.match_method,
                                             !.match_score = r.match_score]
              /\ threshold' = th
              /\ ret' = r.ret
              /\ scans' = r.scans
    /\ pc' = "matched"
    /\ UNCHANGED <<items, user_id, local_user_key, parseVars, extractVars, docVars, runVars>>

NextMatch == FindMatch

SpecMatch == InitMatch /\ [][NextMatch]_vars

(***************************************************************************)
(* Properties of the matching engine.                                      *)
(***************************************************************************)
Matching == pc = "matched"

\* the cited item's DOI and ISBN as the specification normalizes them
NormDoi  == Strip(Lower(citation_item.doi))
NormIsbn == SubNonIsbn(Upper(citation_item.isbn))

DoiStageHits  == citation_item.doi # <<>> /\ NormDoi \in DOMAIN items_by_doi(items)
IsbnStageHits == citation_item.isbn # <<>> /\ NormIsbn \in DOMAIN items_by_isbn(items)

RECURSIVE MaxOf(_)
MaxOf(S) == LET x == CHOOSE y \in S : TRUE
            IN  IF S = {x} THEN x
                ELSE LET m == MaxOf(S \ {x}) IN IF x > m THEN x ELSE m

\* the similarity of the item's search string to a record's composite string
CompositeScore(r) ==
    token_set_ratio(search_string(citation_item), record_search_string(r), r.csim)

\* the similarity of the item's title to a record's title
TitleScore(r) == token_set_ratio(citation_item.title, r.title, r.tsim)

Records == {items[i] : i \in 1..Len(items)}
Titled  == {r \in Records : r.title # <<>>}

\* C1: an item whose DOI is non-empty and, lower-cased and trimmed, is a key of
\* the DOI index gets the record indexed under it, score 100, method "DOI",
\* whatever its other fields and the threshold, also when the ISBN would hit.
C1_DoiExact ==
    (Matching /\ citation_item.doi # <<>> /\ NormDoi \in DOMAIN items_by_doi(items))
    => /\ ret = <<items_by_doi(items)[NormDoi]>>
       /\ citation_item.match_method = "DOI"
       /\ citation_item.match_score = 100

\* C1 witness: a DOI match with no title, under the highest threshold, while
\* the item's ISBN is indexed under another record.
C1_Witness ==
    /\ Matching /\ citation_item.match_method = "DOI"
    /\ citation_item.title = <<>> /\ threshold = 95
    /\ citation_item.doi = <<"A", " ">>
    /\ IsbnStageHits /\ items_by_isbn(items)[NormIsbn] # ret[1]

\* C2 as stated: an item whose DOI is empty or not indexed and whose normalized
\* ISBN is a key of the ISBN index gets the record indexed under it, score 100,
\* method "ISBN", with no scoring pass.
C2_Original ==
    (Matching /\ ~DoiStageHits /\ NormIsbn \in DOMAIN items_by_isbn(items))
    => /\ ret = <<items_by_isbn(items)[NormIsbn]>>
       /\ citation_item.match_method = "ISBN"
       /\ citation_item.match_score = 100
       /\ scans = <<>>

\* C2 as amended: the same for an item whose ISBN is non-empty.
C2_IsbnExact ==
    (Matching /\ ~DoiStageHits /\ citation_item.isbn # <<>>
              /\ NormIsbn \in DOMAIN items_by_isbn(items))
    => /\ ret = <<items_by_isbn(items)[NormIsbn]>>
       /\ citation_item.match_method = "ISBN"
       /\ citation_item.match_score = 100
       /\ scans = <<>>

\* C2 witness: an ISBN match of an item whose non-empty DOI is not indexed and
\* whose ISBN differs in case and punctuation from the record's.
C2_Witness ==
    /\ Matching /\ citation_item.match_method = "ISBN"
    /\ citation_item.doi # <<>> /\ NormDoi \notin DOMAIN items_by_doi(items)
    /\ citation_item.isbn = <<"-", "x">> /\ ret[1].isbn = <<"X", "-">>
    /\ citation_item.title # <<>>

\* what C3 says of a run whose exact stages miss, given that the search string counts
C3_Body ==
    /\ (items # <<>> /\ MaxOf({CompositeScore(r) : r \in Records}) >= threshold)
          => /\ ret # <<>>
             /\ citation_item.match_method = "fuzzy"
             /\ citation_item.match_score = MaxOf({CompositeScore(r) : r \in Records})
             /\ ret[1] \in Records
             /\ CompositeScore(ret[1]) = citation_item.match_score
    /\ citation_item.match_method = "fuzzy"
          => /\ citation_item.match_score >= threshold
             /\ \A r \in Records : CompositeScore(r) <= citation_item.match_score

\* C3 as stated: when neither exact stage hits and the search string is
\* non-empty, a best composite score >= threshold returns the record that
\* achieved it with method "fuzzy" and that score; never a lower-scoring
\* record, never a score below the threshold.
C3_Original ==
    (Matching /\ ~DoiStageHits /\ ~IsbnStageHits /\ search_string(citation_item) # <<>>)
    => C3_Body

\* C3 as amended: the same when the search string has a non-whitespace character.
C3_Fuzzy ==
    (Matching /\ ~DoiStageHits /\ ~IsbnStageHits
              /\ Strip(search_string(citation_item)) # <<>>)
    => C3_Body

\* C3 witness: the second record wins the composite scan over a lower-scoring first.
C3_Witness ==
    /\ Matching /\ citation_item.match_method = "fuzzy"
    /\ Len(items) = 2 /\ ret[1] = items[2]
    /\ CompositeScore(items[1]) < CompositeScore(items[2])
    /\ citation_item.match_score = 85 /\ threshold = 80

BestTitle == IF Titled = {} THEN 0 ELSE MaxOf({TitleScore(r) : r \in Titled})

\* C4: when the DOI, ISBN and composite stages fail and the title is
\* non-empty, the best-scoring titled record is accepted with method
\* "title_only" and its score iff that score is >= 90, whatever the
\* threshold; below 90 there is no match.
C4_TitleOnly ==
    (Matching /\ ~DoiStageHits /\ ~IsbnStageHits
              /\ citation_item.match_method # "fuzzy" /\ citation_item.title # <<>>)
    => /\ (Titled # {} /\ BestTitle >= 90)
              => /\ ret # <<>> /\ ret[1] \in Titled
                 /\ TitleScore(ret[1]) = BestTitle
                 /\ citation_item.match_method = "title_only"
                 /\ citation_item.match_score = BestTitle
       /\ (Titled = {} \/ BestTitle < 90)
              => /\ ret = <<>>
                 /\ citation_item.match_method = ""

\* C4 witness: a title-only match at 90 under a caller threshold of 95.
C4_Witness ==
    /\ Matching /\ citation_item.match_method = "title_only"
    /\ citation_item.match_score = 90 /\ threshold = 95
    /\ scans = <<"fuzzy", "title_only">>

\* C5: an item whose search string is empty and whose DOI and ISBN miss the
\* indexes gets no match, for every threshold and library, and keeps its
\* match_method and match_score.
C5_EmptySearch ==
    (Matching /\ ~DoiStageHits /\ ~IsbnStageHits /\ search_string(citation_item) = <<>>)
    => /\ ret = <<>>
       /\ citation_item.match_method = ""
       /\ citation_item.match_score = 0

\* C5 witness: no match for an item without text whose DOI is not indexed,
\* against a library with records, at threshold 0.
C5_Witness ==
    /\ Matching /\ search_string(citation_item) = <<>>
    /\ citation_item.doi # <<>> /\ ~DoiStageHits /\ ~IsbnStageHits
    /\ items # <<>> /\ threshold = 0 /\ ret = <<>>

\* a record whose DOI (ISBN) is given and normalizes to the empty string
BlankDoiRecord  == \E r \in Records : r.doi # <<>> /\ Strip(Lower(r.doi)) = <<>>
BlankIsbnRecord == \E r \in Records : r.isbn # <<>> /\ SubNonIsbn(Upper(r.isbn)) = <<>>

\* C14 as stated: a match with method "DOI" or "ISBN" is returned only when
\* the normalized identifier that was looked up is non-empty.
C14_Original ==
    Matching =>
        /\ citation_item.match_method = "DOI" => NormDoi # <<>>
        /\ citation_item.match_method = "ISBN" => NormIsbn # <<>>

\* C14 as amended: a match with method "DOI" or "ISBN" has score 100 and is
\* returned only when the item's identifier as given is non-empty and its
\* normalized form is a key of the index, whose record is returned; an item
\* whose DOI is white space only gets a DOI match exactly when a record's DOI
\* normalizes to the empty string, and an item whose ISBN has no digit and no
\* 'X' gets an ISBN match exactly when the DOI stage misses and a record's
\* ISBN normalizes to the empty string.
C14_ExactGiven ==
    Matching =>
        /\ citation_item.match_method = "DOI"
              => /\ citation_item.doi # <<>>
                 /\ NormDoi \in DOMAIN items_by_doi(items)
                 /\ ret = <<items_by_doi(items)[NormDoi]>>
                 /\ citation_item.match_score = 100
        /\ citation_item.match_method = "ISBN"
              => /\ citation_item.isbn # <<>>
                 /\ NormIsbn \in DOMAIN items_by_isbn(items)
                 /\ ret = <<items_by_isbn(items)[NormIsbn]>>
                 /\ citation_item.match_score = 100
        /\ (citation_item.doi # <<>> /\ NormDoi = <<>>)
              => (citation_item.match_method = "DOI" <=> BlankDoiRecord)
        /\ (citation_item.isbn # <<>> /\ NormIsbn = <<>>)
              => (citation_item.match_method = "ISBN" <=>
                     (BlankIsbnRecord /\ citation_item.match_method # "DOI"))

\* C14 witness: an item whose DOI is one blank is matched by DOI to a record
\* whose DOI is one blank, although the item's title is empty.
C14_Witness ==
    /\ Matching /\ citation_item.match_method = "DOI"
    /\ citation_item.doi = <<" ">> /\ ret[1].doi = <<" ">>
    /\ citation_item.title = <<>> /\ citation_item.match_score = 100

(***************************************************************************)
(* Decoded JSON values, as json.loads returns them: a tag and a value.     *)
(* Text is a sequence of tokens; a token stands for a run of characters.   *)
(***************************************************************************)
JObj(f)  == [t |-> "obj", v |-> f]      \* dict: a function from keys to values
JList(q) == [t |-> "list", v |-> q]     \* list
JStr(x)  == [t |-> "str", v |-> x]      \* str
JNum(n)  == [t |-> "num", v |-> n]      \* int
JNull    == [t |-> "null", v |-> 0]     \* None

NoKeys == [k \in {} |-> JNull]          \* {}

\* bool(v)
Truthy(j) ==
    CASE j.t = "obj"  -> DOMAIN j.v # {}
      [] j.t = "list" -> j.v # <<>>
      [] j.t = "str"  -> j.v # <<>>
      [] j.t = "num"  -> j.v # 0
      [] OTHER        -> FALSE

\* d.get(k, default) of a dict d
Get(d, k, default) == IF k \in DOMAIN d.v THEN d.v[k] ELSE default

\* v.get(...) raises AttributeError unless v is a dict
HasGet(j) == j.t = "obj"

\* iter(v) raises TypeError for a number and for None
Iterable(j) == j.t \in {"obj", "list", "str"}

\* the elements a for loop over v visits (a dict's keys are strings and never
\* match the key pattern: each stands as the string "k")
Elements(j) ==
    CASE j.t = "list" -> j.v
      [] j.t = "str"  -> [i \in 1..Len(j.v) |-> JStr(<<j.v[i]>>)]
      [] OTHER        -> [i \in 1..Cardinality(DOMAIN j.v) |-> JStr(<<"k">>)]

\* v[0] raises IndexError (empty list or str), KeyError (dict: its keys are
\* strings) or TypeError (number, None)
HasFirst(j) == j.t \in {"list", "str"} /\ j.v # <<>>

First(j) == IF j.t = "list" THEN j.v[1] ELSE JStr(<<j.v[1]>>)

\* v[:4] raises TypeError unless v is a str or a list
Sliceable(j) == j.t \in {"str", "list"}

\* str(v or ''): the text of a year, '' for a falsy value
StrOrEmpty(j) ==
    CASE ~Truthy(j)   -> <<>>
      [] j.t = "str"  -> j.v
      [] j.t = "num"  -> <<"2020">>
      [] OTHER        -> <<"[..]">>

(***************************************************************************)
(* URIs.  "H" stands for 'http://zotero.org/users/', "I" for '/items/';    *)
(* the key characters are alphanumeric, the account tokens and "H", "I"    *)
(* are not part of a key.                                                  *)
(***************************************************************************)
AlnumTokens == {"K", "L", "M", "N"}

\* re.search(r'/items/([A-Za-z0-9]+)$', uri): the key, or <<>> for no match
KeyMatch(uri) ==
    LET starts == {p \in 1..(Len(uri) - 1) :
                      /\ uri[p] = "I"
                      /\ \A q \in (p + 1)..Len(uri) : uri[q] \in AlnumTokens}
    IN  IF starts = {} THEN <<>>
        ELSE LET p == CHOOSE q \in starts : \A r \in starts : q <= r
             IN  SubSeq(uri, p + 1, Len(uri))

\* lines 129-133 over a list of strings: the key of the first URI that matches
RECURSIVE item_key_of(_)
item_key_of(uris) ==
    IF uris = <<>> THEN <<>>
    ELSE IF KeyMatch(Head(uris)) # <<>> THEN KeyMatch(Head(uris))
    ELSE item_key_of(Tail(uris))

\* lines 129-133: re.search raises TypeError on an element that is not a
\* string, unless an earlier element matched and broke out of the loop
RECURSIVE UriLoopRaises(_)
UriLoopRaises(elems) ==
    IF elems = <<>> THEN FALSE
    ELSE IF Head(elems).t # "str" THEN TRUE
    ELSE IF KeyMatch(Head(elems).v) # <<>> THEN FALSE
    ELSE UriLoopRaises(Tail(elems))

\* the strings of a URI loop that did not raise, up to the end of the list
UriTexts(elems) == [i \in 1..Len(elems) |-> elems[i].v]

RECURSIVE UriLoopKey(_)
UriLoopKey(elems) ==
    IF elems = <<>> THEN <<>>
    ELSE IF Head(elems).t = "str" /\ KeyMatch(Head(elems).v) # <<>>
         THEN KeyMatch(Head(elems).v)
    ELSE UriLoopKey(Tail(elems))

(***************************************************************************)
(* Citation.from_field_code (lines 106-153).                               *)
(***************************************************************************)
\* lines 123-146 for one element of citationItems: [ok |-> FALSE] when a line
\* raises, else the CitationItem
ParseItem(item_data) ==
    IF ~HasGet(item_data) THEN [ok |-> FALSE]                        \* line 127
    ELSE
    LET uris == Get(item_data, "uris", JList(<<>>))
    IN
    IF Truthy(uris) /\ ~HasFirst(uris) THEN [ok |-> FALSE]           \* line 128
    ELSE IF ~Iterable(uris) THEN [ok |-> FALSE]                      \* line 129
    ELSE IF UriLoopRaises(Elements(uris)) THEN [ok |-> FALSE]        \* line 130
    ELSE
    LET item_metadata == Get(item_data, "itemData", JObj(NoKeys))
    IN
    IF ~HasGet(item_metadata) THEN [ok |-> FALSE]                    \* line 137
    ELSE
    LET issued == Get(item_metadata, "issued", JObj(NoKeys))
    IN
    IF ~HasGet(issued) THEN [ok |-> FALSE]                           \* line 138
    ELSE
    LET date_parts == Get(issued, "date-parts", JList(<<JList(<<JNull>>)>>))
    IN
    IF ~HasFirst(date_parts) THEN [ok |-> FALSE]                     \* [0]
    ELSE IF ~HasFirst(First(date_parts)) THEN [ok |-> FALSE]         \* [0][0]
    ELSE
    LET year1 == StrOrEmpty(First(First(date_parts)))
        date  == Get(item_metadata, "date", JNull)
    IN
    IF year1 = <<>> /\ Truthy(date) /\ ~Sliceable(date) THEN [ok |-> FALSE]  \* line 140
    ELSE
    [ok       |-> TRUE,
     uris     |-> uris,
     item_key |-> UriLoopKey(Elements(uris)),
     title    |-> Get(item_metadata, "title", JStr(<<>>)),
     year     |-> IF year1 # <<>> THEN year1
                  ELSE IF Truthy(date) /\ date.t = "str" THEN SubSeq(date.v, 1, 1)
                  ELSE IF Truthy(date) THEN <<"[..]">>
                  ELSE <<>>,
     authors  |-> Get(item_metadata, "author", JList(<<>>)),
     doi      |-> Get(item_metadata, "DOI", JStr(<<>>)),
     isbn     |-> Get(item_metadata, "ISBN", JStr(<<>>))]

\* The tokens of a field-instruction string: "ADDIN " and "ZOTERO_ITEM" (the
\* marker is "ADDIN ZOTERO_ITEM"), " CSL_CITATION", " " (white space), "x"
\* (text without a brace), "{x}" (braces around text that is no JSON) and
\* one token per JSON object text.
DateParts(j) == JObj("date-parts" :> j)

PayloadOf ==
    [ok_item     |-> JObj([citationItems |-> JList(<<
                        JObj([uris |-> JList(<<JStr(<<"H", "9", "I", "M">>)>>),
                              itemData |-> JObj([title |-> JStr(<<"t">>),
                                  issued |-> DateParts(JList(<<JList(<<JNum(2020)>>)>>))])])>>)]),
     no_items    |-> JObj(NoKeys),
     items_num   |-> JObj([citationItems |-> JNum(5)]),
     item_num    |-> JObj([citationItems |-> JList(<<JNum(5)>>)]),
     uri_num     |-> JObj([citationItems |-> JList(<<JObj([uris |-> JList(<<JNum(5)>>)])>>)]),
     uri_num_2nd |-> JObj([citationItems |-> JList(<<
                        JObj([uris |-> JList(<<JStr(<<"H", "9", "I", "M">>), JNum(5)>>)])>>)]),
     no_dates    |-> JObj([citationItems |-> JList(<<JObj([itemData |->
                        JObj([issued |-> DateParts(JList(<<>>))])])>>)]),
     data_str    |-> JObj([citationItems |-> JList(<<JObj([itemData |-> JStr(<<"x">>)])>>)]),
     issued_str  |-> JObj([citationItems |-> JList(<<JObj([itemData |->
                        JObj([issued |-> JStr(<<"2020">>)])])>>)])]

PayloadTokens == DOMAIN PayloadOf

\* the tokens that hold a brace pair
BraceTokens == PayloadTokens \cup {"{x}"}

\* 'ADDIN ZOTERO_ITEM' in field_code (line 390)
HasMarker(code) ==
    \E i \in 1..(Len(code) - 1) : code[i] = "ADDIN " /\ code[i + 1] = "ZOTERO_ITEM"

\* the first position at or after i that holds no white space
RECURSIVE SkipSpace(_, _)
SkipSpace(code, i) ==
    IF i <= Len(code) /\ code[i] = " " THEN SkipSpace(code, i + 1) ELSE i

\* re.search(r'ADDIN ZOTERO_ITEM CSL_CITATION\s*(\{.*\})', field_code, re.DOTALL):
\* the positions after which the marker tokens, white space and a brace follow
MarkerStarts(code) ==
    {i \in 1..(Len(code) - 3) :
        /\ code[i] = "ADDIN " /\ code[i + 1] = "ZOTERO_ITEM" /\ code[i + 2] = " CSL_CITATION"
        /\ SkipSpace(code, i + 3) <= Len(code)
        /\ code[SkipSpace(code, i + 3)] \in BraceTokens}

\* match.group(1): from the first brace after the leftmost marker to the last
\* brace of the string (.* is greedy and, with DOTALL, crosses line ends)
JsonStr(code) ==
    LET i == CHOOSE j \in MarkerStarts(code) : \A k \in MarkerStarts(code) : j <= k
        b == SkipSpace(code, i + 3)
        e == CHOOSE j \in b..Len(code) :
                /\ code[j] \in BraceTokens
                /\ \A k \in (j + 1)..Len(code) : code[k] \notin BraceTokens
    IN  SubSeq(code, b, e)

\* json.loads decodes the text of exactly one JSON object
Decodes(json_str) == Len(json_str) = 1 /\ json_str[1] \in PayloadTokens

\* lines 121-146 raise: citationItems cannot be iterated, or an element raises
ItemsRaise(citation_data) ==
    LET cis == Get(citation_data, "citationItems", JList(<<>>))
    IN  \/ ~Iterable(cis)
        \/ \E i \in 1..Len(Elements(cis)) : ~ParseItem(Elements(cis)[i]).ok

from_field_code(code, index) ==
    IF MarkerStarts(code) = {} THEN [kind |-> "none"]                 \* line 112
    ELSE IF ~Decodes(JsonStr(code)) THEN [kind |-> "none"]            \* line 119
    ELSE
    LET citation_data == PayloadOf[JsonStr(code)[1]]
        cis == Get(citation_data, "citationItems", JList(<<>>))
    IN  IF ItemsRaise(citation_data) THEN [kind |-> "raise"]
        ELSE [kind |-> "citation",
              field_code |-> code,
              items |-> [i \in 1..Len(Elements(cis)) |-> ParseItem(Elements(cis)[i])],
              field_index |-> index,
              is_orphaned |-> FALSE]

(***************************************************************************)
(* The parser run: from_field_code is applied to a field-instruction       *)
(* string.                                                                 *)
(***************************************************************************)
MaxCodeLen == 4

CodeTokens == {"ADDIN ", "ZOTERO_ITEM", " CSL_CITATION", " ", "x"} \cup BraceTokens

FieldCodes == UNION {[1..n -> CodeTokens] : n \in 0..MaxCodeLen}

InitParse ==
    /\ items = <<>> /\ user_id = <<>> /\ local_user_key = <<>>
    /\ IdleEngine
    /\ field_code \in FieldCodes
    /\ parsed = [kind |-> "idle"]
    /\ IdleExtractor
    /\ IdleDocument
    /\ IdleRun
    /\ pc = "field"

Parse ==
    /\ pc = "field"
    /\ parsed' = from_field_code(field_code, 0)
    /\ pc' = "parsed"
    /\ UNCHANGED <<matchVars, field_code, extractVars, docVars, runVars>>

NextParse == Parse

SpecParse == InitParse /\ [][NextParse]_vars

\* C10: from_field_code ends, for every field-instruction string, with a
\* Citation or with None (absence); it never raises.
C10_NeverRaises == pc = "parsed" => parsed.kind \in {"citation", "none"}

(***************************************************************************)
(* extract_citations_from_docx (lines 360-403): one step per element of    *)
(* root.iter(), then the return at the end of the document.                *)
(***************************************************************************)
MaxNodes == 5

\* the text of the w:instrText elements of a document (<<>>: no text)
InstrTexts ==
    {<<>>, <<"ADDIN ">>, <<"ZOTERO_ITEM", " CSL_CITATION">>,
     <<"ADDIN ", "ZOTERO_ITEM", " CSL_CITATION">>,
     <<"ok_item">>, <<"items_num">>, <<"{x}">>}

\* ''.join(current_field)
RECURSIVE Concat(_)
Concat(chunks) == IF chunks = <<>> THEN <<>> ELSE Head(chunks) \o Concat(Tail(chunks))

Iterating == pc = "iterating" /\ visited < MaxNodes

Visit(tag, text) ==
    /\ elem' = [tag |-> tag, text |-> text]
    /\ visited' = visited + 1
    /\ nodes' = Append(nodes, [tag |-> tag, text |-> text])

\* line 403: what the function returns when the elements are exhausted
final_citations(cits, inside, buffer, index) == cits

\* mutant of FldCharBegin: line 385 is left out, the buffer is kept
FldCharBeginKeep ==
    /\ Iterating
    /\ in_field' = TRUE
    /\ Visit("begin", <<>>)
    /\ UNCHANGED <<current_field, extracted, field_index, joined, raised, pc>>
    /\ UNCHANGED <<matchVars, parseVars, docVars, runVars>>

\* lines 383-385
FldCharBegin ==
    /\ Iterating
    /\ in_field' = TRUE
    /\ current_field' = <<>>
    /\ Visit("begin", <<>>)
    /\ UNCHANGED <<extracted, field_index, joined, raised, pc>>
    /\ UNCHANGED <<matchVars, parseVars, docVars, runVars>>

\* a field character that is neither begin nor end (lines 381-386)
FldCharSeparate ==
    /\ Iterating
    /\ Visit("separate", <<>>)
    /\ UNCHANGED <<in_field, current_field, extracted, field_index, joined, raised, pc>>
    /\ UNCHANGED <<matchVars, parseVars, docVars, runVars>>

\* lines 386-396
FldCharEnd ==
    /\ Iterating
    /\ Visit("end", <<>>)
    /\ IF in_field
       THEN LET code == Concat(current_field)
                citation == IF HasMarker(code) THEN from_field_code(code, field_index)
                            ELSE [kind |-> "none"]
            IN  /\ in_field' = FALSE
                /\ joined' = code
                /\ IF citation.kind = "raise"
                   THEN /\ raised' = TRUE
                        /\ pc' = "failed"
                        /\ UNCHANGED <<current_field, extracted, field_index>>
                   ELSE /\ extracted' = IF citation.kind = "citation"
                                        THEN Append(extracted, citation) ELSE extracted
                        /\ field_index' = IF citation.kind = "citation"
                                          THEN field_index + 1 ELSE field_index
                        /\ current_field' = <<>>
                        /\ UNCHANGED <<raised, pc>>
       ELSE UNCHANGED <<in_field, current_field, extracted, field_index, joined, raised, pc>>
    /\ UNCHANGED <<matchVars, parseVars, docVars, runVars>>

\* lines 399-401
InstrText ==
    /\ Iterating
    /\ \E text \in InstrTexts :
          /\ Visit("instrText", text)
          /\ current_field' = IF in_field /\ text # <<>>
                              THEN Append(current_field, text) ELSE current_field
    /\ UNCHANGED <<in_field, extracted, field_index, joined, raised, pc>>
    /\ UNCHANGED <<matchVars, parseVars, docVars, runVars>>

\* any other element
OtherElement ==
    /\ Iterating
    /\ Visit("other", <<>>)
    /\ UNCHANGED <<in_field, current_field, extracted, field_index, joined, raised, pc>>
    /\ UNCHANGED <<matchVars, parseVars, docVars, runVars>>

\* the loop ends and the function returns (line 403)
EndOfDocument ==
    /\ pc = "iterating"
    /\ extracted' = final_citations(extracted, in_field, current_field, field_index)
    /\ pc' = "extracted"
    /\ UNCHANGED <<in_field, current_field, field_index, joined, raised, elem, visited, nodes>>
    /\ UNCHANGED <<matchVars, parseVars, docVars, runVars>>

InitExtract ==
    /\ items = <<>> /\ user_id = <<>> /\ local_user_key = <<>>
    /\ IdleEngine
    /\ IdleParser
    /\ IdleExtractor
    /\ IdleDocument
    /\ IdleRun
    /\ pc = "iterating"

NextExtract ==
    \/ FldCharBegin
    \/ FldCharSeparate
    \/ FldCharEnd
    \/ InstrText
    \/ OtherElement
    \/ EndOfDocument

SpecExtract == InitExtract /\ [][NextExtract]_vars

\* the two malformed structures: a field-end met outside a field changes
\* nothing, emits nothing and does not fail; at the end of the document a
\* field that was begun and not ended emits nothing
C8_Structure ==
    [][/\ (elem'.tag = "end" /\ visited' = visited + 1 /\ ~in_field)
             => /\ in_field' = in_field
                /\ current_field' = current_field
                /\ extracted' = extracted
                /\ field_index' = field_index
                /\ raised' = FALSE
                /\ pc' = "iterating"
       /\ (pc = "iterating" /\ pc' = "extracted")
             => /\ extracted' = extracted
                /\ raised' = FALSE]_vars

\* C8: for every sequence of field-begin, field-separator, field-end and
\* instruction-text nodes the extractor does not fail; a field-end met outside
\* a field changes nothing and emits nothing, and a field begun and not ended
\* before the end of the document emits nothing.
C8_Robust ==
    [][/\ raised' = FALSE
       /\ pc' # "failed"
       /\ (elem'.tag = "end" /\ visited' = visited + 1 /\ ~in_field)
             => /\ in_field' = in_field
                /\ current_field' = current_field
                /\ extracted' = extracted
                /\ field_index' = field_index
       /\ (pc = "iterating" /\ pc' = "extracted") => extracted' = extracted]_vars

\* the document ended inside a field whose text so far is a
\* complete citation, after a field-end that came first, and nothing was emitted.
C8_OpenAtEnd ==
    /\ pc = "extracted" /\ in_field
    /\ from_field_code(Concat(current_field), 0).kind = "citation"
    /\ extracted = <<>> /\ joined = <<>> /\ visited = 4

\* the position of the most recent field-begin among the elements h (0: none)
LastBegin(h) ==
    LET begins == {i \in 1..Len(h) : h[i].tag = "begin"}
    IN  IF begins = {} THEN 0 ELSE CHOOSE i \in begins : \A j \in begins : j <= i

\* the text of the instruction-text elements of h after position i, in order
RECURSIVE TextAfter(_, _)
TextAfter(h, i) ==
    IF i >= Len(h) THEN <<>>
    ELSE (IF h[i + 1].tag = "instrText" THEN h[i + 1].text ELSE <<>>) \o TextAfter(h, i + 1)

SinceBegin(h) == TextAfter(h, LastBegin(h))

\* C12: the text examined at a field-end met inside a field is the
\* concatenation, in document order, of the text of the instruction-text nodes
\* seen since the most recent field-begin; a field-begin discards the text
\* before it, a separator neither resets nor ends the accumulation,
\* instruction text outside a field is not included, after the field-end the
\* buffer is empty and the state is outside-field, and a citation is handed on
\* only if the text contains the marker.
C12_Accumulation ==
    /\ []((pc = "iterating" /\ in_field) => Concat(current_field) = SinceBegin(nodes))
    /\ []((pc = "iterating" /\ ~in_field) => current_field = <<>>)
    /\ [][/\ (elem'.tag = "end" /\ visited' = visited + 1 /\ in_field)
                => /\ joined' = SinceBegin(nodes)
                   /\ pc' = "iterating" => (~in_field' /\ current_field' = <<>>)
                   /\ extracted' # extracted =>
                         /\ HasMarker(joined')
                         /\ extracted' = Append(extracted, from_field_code(joined', field_index))
          /\ (elem'.tag = "begin" /\ visited' = visited + 1)
                => (in_field' /\ current_field' = <<>>)
          /\ (elem'.tag = "separate" /\ visited' = visited + 1)
                => (in_field' = in_field /\ current_field' = current_field)
          /\ (elem'.tag = "instrText" /\ visited' = visited + 1 /\ ~in_field)
                => current_field' = current_field
          /\ elem'.tag # "end" => extracted' = extracted]_vars

\* C12 witness: a field whose marker and payload lay in two instruction-text
\* nodes with a separator between them closed and made a citation.
C12_Witness ==
    /\ pc = "iterating" /\ ~in_field /\ current_field = <<>> /\ Len(nodes) = 5
    /\ nodes[1].tag = "begin" /\ nodes[2].tag = "instrText"
    /\ nodes[3].tag = "separate" /\ nodes[4].tag = "instrText" /\ nodes[5].tag = "end"
    /\ joined = <<"ADDIN ", "ZOTERO_ITEM", " CSL_CITATION", "ok_item">>
    /\ Len(extracted) = 1

\* the discarded text: a field held text, was begun again, and
\* closed on the text that followed the second begin only.
C12_Discarded ==
    /\ pc = "iterating" /\ ~in_field
    /\ Len(nodes) = 5
    /\ nodes[1].tag = "begin" /\ nodes[2].tag = "instrText" /\ nodes[2].text # <<>>
    /\ nodes[3].tag = "begin" /\ nodes[4].tag = "instrText" /\ nodes[5].tag = "end"
    /\ joined = nodes[4].text /\ joined # <<>>

(***************************************************************************)
(* The relinking run of main (lines 661-699) on an extracted document:     *)
(* check_orphaned_status, the matching loop, update_docx_citations.        *)
(***************************************************************************)
MaxCitations == 2
MaxItems == 2
MaxCited == 2

\* URIs are sequences of tokens: "H" is 'http://zotero.org/users/', "I" is
\* '/items/', then the key; "#" stands for the markup between two URIs.
Uri1 == <<"H", "9", "I", "M">>
Uri2 == <<"H", "9", "I", "N">>
Uri3 == <<"H", "1", "I", "K">>
Uri4 == <<"H", "9", "I", "M", "N">>

\* the uris lists of the cited items of a document
UriLists == {<<>>, <<Uri1>>, <<Uri2, Uri3>>, <<Uri3>>, <<Uri4>>}

\* a CitationItem as from_field_code builds it from a list of URI strings
\* (lines 123-133), with the defaults of the dataclass (lines 72-73)
CitedItem(uris) ==
    [uris |-> uris, item_key |-> item_key_of(uris),
     is_orphaned |-> FALSE, matched_library_item |-> <<>>]

\* a Citation (lines 148-153, default of line 103)
NewCitation(its, index) == [items |-> its, field_index |-> index, is_orphaned |-> FALSE]

RECURSIVE SumTo(_, _)
SumTo(counts, n) == IF n = 0 THEN 0 ELSE counts[n] + SumTo(counts, n - 1)

\* how many items each citation of a document holds
Shapes ==
    {sh \in UNION {[1..n -> 0..MaxItems] : n \in 0..MaxCitations} :
        SumTo(sh, Len(sh)) <= MaxCited}

\* the citations of shape sh whose items, in document order, have the uris fill
Build(sh, fill) ==
    [c \in 1..Len(sh) |->
        NewCitation([i \in 1..sh[c] |-> CitedItem(fill[SumTo(sh, c - 1) + i])], c - 1)]

Documents ==
    UNION {{Build(sh, fill) : fill \in [1..SumTo(sh, Len(sh)) -> UriLists]} : sh \in Shapes}

\* the text of word/document.xml as far as the rewrite can see it: the URI
\* strings of the citations, in document order, inside other markup
RECURSIVE UrisText(_)
UrisText(uris) ==
    IF uris = <<>> THEN <<>> ELSE <<"#">> \o Head(uris) \o UrisText(Tail(uris))

RECURSIVE ItemsText(_)
ItemsText(its) ==
    IF its = <<>> THEN <<>> ELSE UrisText(Head(its).uris) \o ItemsText(Tail(its))

RECURSIVE Doc(_)
Doc(cits) ==
    IF cits = <<>> THEN <<"#">> ELSE ItemsText(Head(cits).items) \o Doc(Tail(cits))

\* records of a library that is only looked up by key
PlainRecord == [title |-> <<"t">>, doi |-> <<>>, isbn |-> <<>>, csim |-> 75, tsim |-> 75]

KeyedLibraries == {[i \in 1..n |-> WithKey(PlainRecord, i)] : n \in 0..MaxRecords}

\* user_id and local_user_key as _load_items leaves them (<<>>: None)
Accounts ==
    {[user_id |-> <<"1">>, local_user_key |-> <<>>],
     [user_id |-> <<>>, local_user_key |-> <<"k">>],
     [user_id |-> <<>>, local_user_key |-> <<>>]}

\* mutant of any_orphaned: all() in place of any()
all_orphaned(its) == \A i \in 1..Len(its) : its[i].is_orphaned

\* line 417: any(item.is_orphaned for item in citation.items)
any_orphaned(its) == \E i \in 1..Len(its) : its[i].is_orphaned

\* lines 411-414, the flag of one item
item_orphaned(item, by_key) == ~(item.item_key # <<>> /\ item.item_key \in DOMAIN by_key)

\* check_orphaned_status (lines 406-417)
check_orphaned_status(cits, by_key) ==
    [c \in 1..Len(cits) |->
        LET its == [i \in 1..Len(cits[c].items) |->
                       [cits[c].items[i] EXCEPT
                           !.is_orphaned = item_orphaned(cits[c].items[i], by_key)]]
        IN  [cits[c] EXCEPT !.items = its, !.is_orphaned = any_orphaned(its)]]

\* the positions <<c, i>> of the orphaned items
OrphanedAt(cits) ==
    {p \in (1..MaxCitations) \X (1..MaxItems) :
        /\ p[1] <= Len(cits)
        /\ p[2] <= Len(cits[p[1]].items)
        /\ cits[p[1]].items[p[2]].is_orphaned}

\* what find_match returns: None (<<>>) or a record of the library
MatchResults(its) == {<<>>} \cup {<<its[i]>> : i \in 1..Len(its)}

\* lines 674-679: the match of every orphaned item is stored when it is truthy
StoreMatches(cits, m) ==
    [c \in 1..Len(cits) |->
        [cits[c] EXCEPT !.items =
            [i \in 1..Len(cits[c].items) |->
                IF cits[c].items[i].is_orphaned /\ m[<<c, i>>] # <<>>
                THEN [cits[c].items[i] EXCEPT !.matched_library_item = m[<<c, i>>]]
                ELSE cits[c].items[i]]]]

\* lines 512-517
new_uri(uid, luk, new_key) ==
    IF uid # <<>> THEN <<"H">> \o uid \o <<"I">> \o new_key
    ELSE IF luk # <<>> THEN <<"H", "local/">> \o luk \o <<"I">> \o new_key
    ELSE <<"H", "local", "I">> \o new_key

\* uri_replacements[old] = new on a dict kept in insertion order
DictSet(d, old, new) ==
    IF \E i \in 1..Len(d) : d[i].old = old
    THEN [i \in 1..Len(d) |-> IF d[i].old = old THEN [old |-> old, new |-> new] ELSE d[i]]
    ELSE Append(d, [old |-> old, new |-> new])

\* lines 519-521 for one item
RECURSIVE MapUris(_, _, _)
MapUris(d, uris, new) ==
    IF uris = <<>> THEN d ELSE MapUris(DictSet(d, Head(uris), new), Tail(uris), new)

\* mutant of MapItems: an orphaned item without a match is not skipped, its
\* URIs are mapped to a URI made of the key None
RECURSIVE MapItemsUnmatched(_, _, _, _)
MapItemsUnmatched(d, its, uid, luk) ==
    IF its = <<>> THEN d
    ELSE LET item == Head(its)
             key  == IF item.matched_library_item = <<>> THEN <<"None">>
                     ELSE item.matched_library_item[1].key
         IN  IF ~item.is_orphaned
             THEN MapItemsUnmatched(d, Tail(its), uid, luk)
             ELSE MapItemsUnmatched(MapUris(d, item.uris, new_uri(uid, luk, key)),
                                    Tail(its), uid, luk)

\* lines 506-521 for the items of one citation
RECURSIVE MapItems(_, _, _, _)
MapItems(d, its, uid, luk) ==
    IF its = <<>> THEN d
    ELSE LET item == Head(its)
         IN  IF ~item.is_orphaned \/ item.matched_library_item = <<>>
             THEN MapItems(d, Tail(its), uid, luk)
             ELSE MapItems(MapUris(d, item.uris,
                                   new_uri(uid, luk, item.matched_library_item[1].key)),
                           Tail(its), uid, luk)

\* lines 502-521
RECURSIVE MapCitations(_, _, _, _)
MapCitations(d, cits, uid, luk) ==
    IF cits = <<>> THEN d
    ELSE IF ~Head(cits).is_orphaned THEN MapCitations(d, Tail(cits), uid, luk)
    ELSE MapCitations(MapItems(d, Head(cits).items, uid, luk), Tail(cits), uid, luk)

uri_replacements(cits, uid, luk) == MapCitations(<<>>, cits, uid, luk)

\* old_uri in content
Contains(text, old) ==
    \E p \in 1..(Len(text) - Len(old) + 1) : SubSeq(text, p, p + Len(old) - 1) = old

\* content.replace(old_uri, new_uri): every occurrence, found left to right
\* without overlap
RECURSIVE Replace(_, _, _)
Replace(text, old, new) ==
    IF Len(text) < Len(old) THEN text
    ELSE IF SubSeq(text, 1, Len(old)) = old
         THEN new \o Replace(SubSeq(text, Len(old) + 1, Len(text)), old, new)
    ELSE <<Head(text)>> \o Replace(Tail(text), old, new)

\* lines 544-548: the pairs are applied one after the other to the text
RECURSIVE replace_each(_, _, _)
replace_each(text, d, made) ==
    IF d = <<>> THEN [content |-> text, replacements_made |-> made]
    ELSE IF Contains(text, Head(d).old)
         THEN replace_each(Replace(text, Head(d).old, Head(d).new), Tail(d), made + 1)
    ELSE replace_each(text, Tail(d), made)

\* mutant of no_replacements: the early return is never taken
no_replacements_never(d) == FALSE

\* line 523: not uri_replacements
no_replacements(d) == d = <<>>

\* update_docx_citations (lines 496-567): what is written to output_path
\* (<<>>: no file) and the message printed at line 524 or 550
update_docx_citations(text, cits, uid, luk) ==
    LET d == uri_replacements(cits, uid, luk)
    IN  IF no_replacements(d)
        THEN [output |-> <<>>,
              message |-> [text |-> "No matched citations to update.", made |-> 0]]
        ELSE LET r == replace_each(text, d, 0)
             IN  [output |-> <<r.content>>,
                  message |-> [text |-> "Replaced", made |-> r.replacements_made]]

InitRelink ==
    /\ items \in KeyedLibraries
    /\ \E a \in Accounts : user_id = a.user_id /\ local_user_key = a.local_user_key
    /\ IdleEngine
    /\ IdleParser
    /\ IdleExtractor
    /\ citations \in Documents
    /\ content = Doc(citations)
    /\ output = <<>>
    /\ message = NoMessage
    /\ IdleRun
    /\ pc = "found"

\* line 670; the classifier may be run again on its own result
CheckOrphanedStatus ==
    /\ pc \in {"found", "classified"}
    /\ citations' = check_orphaned_status(citations, items_by_key(items))
    /\ pc' = "classified"
    /\ UNCHANGED <<matchVars, parseVars, extractVars, runVars, content, output, message>>

\* lines 673-679
MatchOrphans ==
    /\ pc = "classified"
    /\ \E m \in [OrphanedAt(citations) -> MatchResults(items)] :
          citations' = StoreMatches(citations, m)
    /\ pc' = "matched"
    /\ UNCHANGED <<matchVars, parseVars, extractVars, runVars, content, output, message>>

\* lines 695-697
UpdateDocx ==
    /\ pc = "matched"
    /\ LET r == update_docx_citations(content, citations, user_id, local_user_key)
       IN  output' = r.output /\ message' = r.message
    /\ pc' = "updated"
    /\ UNCHANGED <<matchVars, parseVars, extractVars, runVars, citations, content>>

NextRelink ==
    \/ CheckOrphanedStatus
    \/ MatchOrphans
    \/ UpdateDocx

SpecRelink == InitRelink /\ [][NextRelink]_vars

\* the replacement pairs the rewrite collects from the orphaned, matched items
Pairs == uri_replacements(citations, user_id, local_user_key)

\* the texts obtained from text by replacing, left to right, every occurrence
\* of an old identifier of d by its new identifier and keeping the rest
RECURSIVE Rewritten(_, _)
Rewritten(text, d) ==
    IF text = <<>> THEN {<<>>}
    ELSE LET here == {i \in 1..Len(d) :
                         /\ Len(d[i].old) <= Len(text)
                         /\ SubSeq(text, 1, Len(d[i].old)) = d[i].old}
         IN  IF here = {}
             THEN {<<Head(text)>> \o r : r \in Rewritten(Tail(text), d)}
             ELSE UNION {{d[i].new \o r :
                             r \in Rewritten(SubSeq(text, Len(d[i].old) + 1, Len(text)), d)} :
                         i \in here}

\* C6: the patched markup written by update_docx_citations is the original
\* markup with every occurrence of each old identifier replaced by that
\* identifier's own new identifier and every other character unchanged.
C6_Rewrite == (pc = "updated" /\ output # <<>>) => output[1] \in Rewritten(content, Pairs)

SomeOrphaned == OrphanedAt(citations) # {}

NoneMatched ==
    \A p \in OrphanedAt(citations) :
        citations[p[1]].items[p[2]].matched_library_item = <<>>

\* C7: when no orphaned cited item has a matched record, update_docx_citations
\* writes nothing, the markup stays the original markup, and the caller gets
\* the informational message instead of an error.
C7_NoOp ==
    (pc = "updated" /\ NoneMatched) =>
        /\ output = <<>>
        /\ content = Doc(citations)
        /\ message = [text |-> "No matched citations to update.", made |-> 0]

\* C7 witness: a document with an orphaned item that found no match has gone
\* through the rewrite.
C7_Witness ==
    /\ pc = "updated" /\ SomeOrphaned /\ NoneMatched
    /\ output = <<>> /\ Len(content) > 1

\* the citations with both flags cleared
ClearFlags(cits) ==
    [c \in 1..Len(cits) |->
        [cits[c] EXCEPT !.is_orphaned = FALSE,
                        !.items = [i \in 1..Len(cits[c].items) |->
                                      [cits[c].items[i] EXCEPT !.is_orphaned = FALSE]]]]

LibraryKeys == {items[i].key : i \in 1..Len(items)}

C9_Flags ==
    \A c \in 1..Len(citations) :
        /\ \A i \in 1..Len(citations[c].items) :
              citations[c].items[i].is_orphaned <=>
                  (\/ citations[c].items[i].item_key = <<>>
                   \/ citations[c].items[i].item_key \notin LibraryKeys)
        /\ citations[c].is_orphaned <=>
              (\E i \in 1..Len(citations[c].items) : citations[c].items[i].is_orphaned)

\* C9: after check_orphaned_status an item is orphaned iff its item_key is null
\* or not a key of the library, a citation is orphaned iff one of its items is
\* (none when it has no items); a second run leaves the flags as they are, and
\* a run writes nothing but the two flags.
C9_Classifier ==
    /\ [](pc = "classified" => C9_Flags)
    /\ [][pc' = "classified" =>
             /\ ClearFlags(citations') = ClearFlags(citations)
             /\ pc = "classified" => citations' = citations
             /\ UNCHANGED <<items, content, output, message>>]_vars

\* C9 witness: the classifier has run on a citation that holds an orphaned
\* item and a linked item, both with a key, and is itself orphaned.
C9_Witness ==
    /\ pc = "classified"
    /\ \E c \in 1..Len(citations) :
          /\ Len(citations[c].items) = 2
          /\ citations[c].is_orphaned
          /\ \E i, j \in 1..2 : /\ citations[c].items[i].is_orphaned
                                /\ ~citations[c].items[j].is_orphaned
                                /\ citations[c].items[j].item_key # <<>>
                                /\ citations[c].items[i].item_key # <<>>

\* the text between the "#" of a markup text, in order
RECURSIVE Split(_)
Split(text) ==
    IF text = <<>> THEN << <<>> >>
    ELSE LET rest == Split(Tail(text))
         IN  IF Head(text) = "#" THEN << <<>> >> \o rest
             ELSE << <<Head(text)>> \o Head(rest) >> \o Tail(rest)

\* the URIs of the cited items in document order, each with whether its item
\* is to be left alone (not orphaned, or orphaned without a matched record)
RECURSIVE ItemSlots(_)
ItemSlots(its) ==
    IF its = <<>> THEN <<>>
    ELSE [k \in 1..Len(Head(its).uris) |->
             [uri |-> Head(its).uris[k],
              kept |-> ~Head(its).is_orphaned \/ Head(its).matched_library_item = <<>>]]
         \o ItemSlots(Tail(its))

RECURSIVE UriSlots(_)
UriSlots(cits) ==
    IF cits = <<>> THEN <<>> ELSE ItemSlots(Head(cits).items) \o UriSlots(Tail(cits))

\* the URIs of the orphaned items that have a matched record
OldIdentifiers ==
    {UriSlots(citations)[k].uri : k \in {j \in 1..Len(UriSlots(citations)) :
                                            ~UriSlots(citations)[j].kept}}

\* C13 as stated: every occurrence of a URI of an item that is not orphaned,
\* or is orphaned without a matched record, is unchanged and at the same place
\* in the patched markup.
C13_Original ==
    (pc = "updated" /\ output # <<>>) =>
        /\ Len(Split(output[1])) = Len(Split(content))
        /\ \A k \in 1..Len(UriSlots(citations)) :
              UriSlots(citations)[k].kept
                 => Split(output[1])[k + 1] = UriSlots(citations)[k].uri

\* C13 as amended: the same for every such URI that contains no URI of an
\* orphaned, matched item (a URI that is or contains one is rewritten there).
C13_Frame ==
    (pc = "updated" /\ output # <<>>) =>
        /\ Len(Split(output[1])) = Len(Split(content))
        /\ \A k \in 1..Len(UriSlots(citations)) :
              (/\ UriSlots(citations)[k].kept
               /\ \A old \in OldIdentifiers : ~Contains(UriSlots(citations)[k].uri, old))
                 => Split(output[1])[k + 1] = UriSlots(citations)[k].uri

\* C13 witness: a document was rewritten in which an orphaned item without a
\* match and a linked item kept their URIs while the URI before them changed.
C13_Witness ==
    /\ pc = "updated" /\ output # <<>>
    /\ \E j, k \in 1..Len(UriSlots(citations)) :
          /\ j < k
          /\ ~UriSlots(citations)[j].kept
          /\ Split(output[1])[j + 1] # UriSlots(citations)[j].uri
          /\ UriSlots(citations)[k].kept
          /\ Split(output[1])[k + 1] = UriSlots(citations)[k].uri
          /\ Len(Split(output[1])[j + 1]) # Len(UriSlots(citations)[j].uri)

(***************************************************************************)
(* main (lines 612-701): the input file, the database, extraction, orphan  *)
(* classification, matching, the report, the guide, the updated document.  *)
(***************************************************************************)
\* what a run can find: --output and --guide given or not, the input file
\* there or not, a Zotero database found or not, the library and the account
\* settings stored in it, and the citations the document holds
Environments ==
    {e \in [docx_exists : BOOLEAN, db_found : BOOLEAN, catalog : KeyedLibraries,
            user_id : {a.user_id : a \in Accounts},
            local_user_key : {a.local_user_key : a \in Accounts},
            document : Documents, output : BOOLEAN, guide : BOOLEAN] :
        /\ \E a \in Accounts : a.user_id = e.user_id /\ a.local_user_key = e.local_user_key
        /\ ~e.db_found => (e.catalog = <<>> /\ e.user_id = <<>> /\ e.local_user_key = <<>>)
        /\ ~e.docx_exists => e.document = <<>>}

\* generate_report, lines 426-436: the figures of the summary
generate_report(cits) ==
    [total_citations |-> Len(cits),
     orphaned_citations |-> Cardinality({c \in 1..Len(cits) : cits[c].is_orphaned}),
     orphaned_items |-> Cardinality(OrphanedAt(cits))]

InitMain ==
    /\ items = <<>> /\ user_id = <<>> /\ local_user_key = <<>>
    /\ IdleEngine
    /\ IdleParser
    /\ IdleExtractor
    /\ IdleDocument
    /\ env \in Environments
    /\ report = <<>>
    /\ exit_code = <<>>
    /\ calls = 0
    /\ pc = "start"

\* lines 641-643
MainCheckInput ==
    /\ pc = "start"
    /\ IF env.docx_exists
       THEN pc' = "connect" /\ UNCHANGED exit_code
       ELSE pc' = "exited" /\ exit_code' = <<1>>
    /\ UNCHANGED <<matchVars, parseVars, extractVars, docVars, env, report, calls>>

\* lines 646-656: ZoteroDatabase(...) loads the library when a database is
\* found (lines 159-169); without one main exits with status 1
MainConnect ==
    /\ pc = "connect"
    /\ IF env.db_found
       THEN /\ items' = env.catalog
            /\ user_id' = env.user_id
            /\ local_user_key' = env.local_user_key
            /\ pc' = "connected"
            /\ UNCHANGED exit_code
       ELSE /\ pc' = "exited"
            /\ exit_code' = <<1>>
            /\ UNCHANGED <<items, user_id, local_user_key>>
    /\ UNCHANGED <<citation_item, threshold, ret, scans, parseVars, extractVars,
                   docVars, env, report, calls>>

\* lines 660-668
MainExtract ==
    /\ pc = "connected"
    /\ citations' = env.document
    /\ content' = Doc(env.document)
    /\ IF env.document = <<>>
       THEN pc' = "exited" /\ exit_code' = <<0>>
       ELSE pc' = "found" /\ UNCHANGED exit_code
    /\ UNCHANGED <<matchVars, parseVars, extractVars, output, message, env, report, calls>>

\* line 670
MainClassify ==
    /\ pc = "found"
    /\ citations' = check_orphaned_status(citations, items_by_key(items))
    /\ pc' = "classified"
    /\ UNCHANGED <<matchVars, parseVars, extractVars, content, output, message, runVars>>

\* lines 673-679: find_match is called once for every orphaned item
MainMatch ==
    /\ pc = "classified"
    /\ \E m \in [OrphanedAt(citations) -> MatchResults(items)] :
          citations' = StoreMatches(citations, m)
    /\ calls' = calls + Cardinality(OrphanedAt(citations))
    /\ pc' = "matched"
    /\ UNCHANGED <<matchVars, parseVars, extractVars, content, output, message,
                   env, report, exit_code>>

\* lines 681-693: the report is printed and saved, the guide written on request
MainReport ==
    /\ pc = "matched"
    /\ report' = <<[summary |-> generate_report(citations), guide |-> env.guide]>>
    /\ pc' = "reported"
    /\ UNCHANGED <<matchVars, parseVars, extractVars, docVars, env, exit_code, calls>>

\* lines 695-699, then main returns
MainUpdate ==
    /\ pc = "reported"
    /\ IF env.output
       THEN LET r == update_docx_citations(content, citations, user_id, local_user_key)
            IN  output' = r.output /\ message' = r.message
       ELSE UNCHANGED <<output, message>>
    /\ pc' = "done"
    /\ UNCHANGED <<matchVars, parseVars, extractVars, citations, content, runVars>>

NextMain ==
    \/ MainCheckInput
    \/ MainConnect
    \/ MainExtract
    \/ MainClassify
    \/ MainMatch
    \/ MainReport
    \/ MainUpdate

SpecMain == InitMain /\ [][NextMain]_vars

\* the run has no catalog data: no database was found, or it holds no record
NoCatalog == ~env.db_found \/ env.catalog = <<>>

\* C11: a run without catalog data ends in a hard failure before matching:
\* find_match is never called, no report and no updated document is produced,
\* and the run does not come to its normal end.
C11_HardFailure ==
    NoCatalog =>
        /\ calls = 0
        /\ report = <<>>
        /\ output = <<>>
        /\ pc # "done"

\* the run of an empty library went through matching and wrote a report
C11_EmptyLibraryRun ==
    /\ pc = "done" /\ env.db_found /\ env.catalog = <<>>
    /\ calls > 0 /\ report # <<>> /\ exit_code = <<>>

\* without a database the run does end with status 1 before extraction
C11_NoDatabase ==
    (pc \notin {"start", "connect"} /\ env.docx_exists /\ ~env.db_found) =>
        /\ pc = "exited" /\ exit_code = <<1>>
        /\ calls = 0 /\ report = <<>> /\ output = <<>> /\ citations = <<>>

====
